---- MODULE Spec2Model ----
(***************************************************************************)
(* Wingman-Monitor: the error-capture-and-report pipeline.                 *)
(*                                                                         *)
(* The model follows class WingmanMonitor (src/src/utils/errorFiltering.ts *)
(* lines 65-485), the filter shouldReportError (lines 4-26) and            *)
(* ConfigManager.load (src/src/config.ts lines 29-39).  One monitor        *)
(* instance lives in one JavaScript runtime; the host application raises   *)
(* errors, calls the console and calls the monitor's public operations.    *)
(***************************************************************************)
EXTENDS Integers, Sequences, FiniteSets, TLC

\* ------------------------------------------------------------------------
\* Bounds of the model
\* ------------------------------------------------------------------------
MaxSetups == 2      \* executions of setupErrorHandlers
MaxPosts == 2       \* webhook POSTs issued
MaxTriggers == 1    \* error triggers raised by the host
MaxLogLen == 2      \* entries in recentLogs the model lets accumulate
MaxPendingStarts == 1 \* start() calls suspended at the config load
StackDepth == 2     \* frames a self-chaining handler runs before the stack overflows
MaxRecords == 52    \* BufferSpec: entries recorded, two more than the buffer keeps
MaxWindowLen == 4   \* WindowSpec: entries the buffer accumulates

\* ------------------------------------------------------------------------
\* Values
\* ------------------------------------------------------------------------
\* this.config = null
Null == [null |-> TRUE]
\* .wingman.json does not exist / exists but cannot be read or parsed
NoFile == [file |-> "absent"]
Corrupt == [file |-> "corrupt"]

AccessTokens == {"tok"}
\* the documents .wingman.json can hold (interface WingmanConfig)
ConfigDocs == [enabled : BOOLEAN, accessToken : AccessTokens, environment : {"production"}]
ConfigFiles == {NoFile, Corrupt} \cup ConfigDocs

\* values of a global handler slot: null, a handler the host installed,
\* or the handler the monitor created in its g-th setupErrorHandlers
NullHandler == 0
HostHandler == 1
MonitorHandler(g) == 1 + g
IsMonitorHandler(h) == h > 1

ConsoleFns == {"error", "warn", "log"}

\* values of process.env.NODE_ENV
NodeEnvs == {"development", "production"}

\* ------------------------------------------------------------------------
\* Arguments of console calls and thrown errors
\* ------------------------------------------------------------------------
\* An argument is a string, an Error instance, a plain object or an object
\* JSON.stringify cannot serialize (a circular reference).
StrArg(s) == [kind |-> "string", text |-> s]
ErrorArg(s) == [kind |-> "Error", text |-> s]
ObjectArg == [kind |-> "object", text |-> "{}"]
CircularArg == [kind |-> "circular", text |-> ""]

\* the texts that contain 'error' when lower-cased
ErrorWords == {"an error occurred", "Script error", "Script error in page", "script error",
               "Wingman: Failed to report error:", "Wingman: Error reported successfully"}
\* String.prototype.includes on the model's texts
Includes(text, marker) ==
    CASE marker = "error" -> text \in ErrorWords
      [] marker = "Script error" -> text \in {"Script error", "Script error in page"}
      [] marker = "chrome-extension://" -> text = "chrome-extension://abc/x.js"
      [] marker = "Failed to fetch" -> text = "Failed to fetch"
      [] OTHER -> FALSE

IsString(a) == a.kind = "string"
\* args.some(arg => arg instanceof Error)
SomeErrorInstance(args) == \E i \in 1..Len(args) : args[i].kind = "Error"
\* some argument makes JSON.stringify throw
SomeCircular(args) == \E i \in 1..Len(args) : args[i].kind = "circular"

\* ------------------------------------------------------------------------
\* State
\* ------------------------------------------------------------------------
VARIABLES
    hasProcess,     \* the runtime has process.on / process.removeListener
    hasWindow,      \* the runtime has a window object
    nodeEnv,        \* process.env.NODE_ENV
    config,         \* WingmanMonitor.config
    isStarted,      \* WingmanMonitor.isStarted
    setups,         \* how many times setupErrorHandlers has run (names the closures it made)
    procListeners,  \* listeners the monitor holds on each of the two process events
    winOnerror,     \* window.onerror
    winOnrejection, \* window.onunhandledrejection
    originalErrorHandler,               \* WingmanMonitor.originalErrorHandler
    originalUnhandledRejectionHandler,  \* WingmanMonitor.originalUnhandledRejectionHandler
    console,        \* console.error / console.warn / console.log
    originalConsole,\* originalConsoleError / originalConsoleWarn / originalConsoleLog
    recentLogs,     \* WingmanMonitor.recentLogs
    now,            \* Date.now(); Spec holds the clock still, none of its properties reads a timestamp
    startsPending,  \* start() calls suspended at `await this.configManager.load()`
    inflight,       \* POSTs awaiting their response: [awaited, floating]
    posts,          \* history: webhook POSTs issued so far
    triggers,       \* history: error triggers the host has raised so far
    lastReport,     \* history: the report of the latest POST, with the state it was built in
    raised,         \* history: the operation that ran last raised (threw or rejected)
    preStart,       \* history: the global slots as setupErrorHandlers last found them
    filterCall,     \* the host's latest call of shouldReportError: arguments and verdict
    testsPending,   \* testWebhook() calls suspended at `await this.reportError(...)`
    configFile,     \* what .wingman.json holds, in the specifications that track the file
    storeConfig,    \* this.config of a ConfigManager the host holds
    storeCall,      \* the host's latest call of that ConfigManager: what it did and returned
    cliCall,        \* the latest `wingman` command and how it ended
    envCall,        \* the host's latest call of getEnvironmentConfig and what it returned
    winCall,        \* the browser's latest call of window.onerror and how it ended
    stoppedDuringStart, \* history: stop() ran while a start() call was suspended
    other           \* a second WingmanMonitor of the same process

vars == <<hasProcess, hasWindow, nodeEnv, config, isStarted, setups,
          procListeners, winOnerror, winOnrejection, originalErrorHandler,
          originalUnhandledRejectionHandler, console, originalConsole, recentLogs, now,
          startsPending, inflight, posts, triggers, lastReport, raised, preStart,
          filterCall, testsPending, configFile, storeConfig, storeCall, cliCall,
          envCall, winCall, stoppedDuringStart, other>>

runtimeVars == <<hasProcess, hasWindow, nodeEnv>>

\* the page's error events, a stop() racing a start(), a second monitor
peerVars == <<winCall, stoppedDuringStart, other>>

\* the project's config file, a ConfigManager of the host, the CLI
storeVars == <<configFile, storeConfig, storeCall, cliCall>>

\* what the host holds of its calls of the filter, of getEnvironmentConfig and of
\* testWebhook(), and storeVars
hostVars == <<filterCall, envCall, testsPending, storeVars, peerVars>>

NoCall == [called |-> FALSE]

\* a second monitor that has not been started
NoOther == [isStarted |-> FALSE, config |-> Null, listeners |-> 0,
            orig |-> [fn \in ConsoleFns |-> HostHandler], logs |-> <<>>, posts |-> 0]

NoReport == [errorType |-> "none"]
NoSlots == [taken |-> FALSE]

\* ------------------------------------------------------------------------
\* Error Filter
\* ------------------------------------------------------------------------
\* a message is the sequence of texts that join(' ') glued together
MsgIncludes(msg, marker) == \E i \in 1..Len(msg) : Includes(msg[i], marker)

\* shouldReportError as it would be without its development rule
shouldReportErrorAnyEnv(env, msg, status) ==
    IF MsgIncludes(msg, "chrome-extension://") THEN FALSE
    ELSE IF MsgIncludes(msg, "Failed to fetch") /\ status = "0" THEN FALSE
    ELSE IF MsgIncludes(msg, "Script error") THEN FALSE
    ELSE TRUE

\* shouldReportError as it would be if it compared the message with 'Script error'
shouldReportErrorExactScript(env, msg, status) ==
    IF env = "development" THEN FALSE
    ELSE IF MsgIncludes(msg, "chrome-extension://") THEN FALSE
    ELSE IF MsgIncludes(msg, "Failed to fetch") /\ status = "0" THEN FALSE
    ELSE IF msg = <<"Script error">> THEN FALSE
    ELSE TRUE

\* shouldReportError(error, context), with process.env.NODE_ENV = env,
\* error.message = msg and context?.status = status ("absent": no context or no status)
shouldReportError(env, msg, status) ==
    IF env = "development" THEN FALSE
    ELSE IF MsgIncludes(msg, "chrome-extension://") THEN FALSE
    ELSE IF MsgIncludes(msg, "Failed to fetch") /\ status = "0" THEN FALSE
    ELSE IF MsgIncludes(msg, "Script error") THEN FALSE
    ELSE TRUE

\* ------------------------------------------------------------------------
\* The monitor's steps as functions of a record m of what they read and write
\* ------------------------------------------------------------------------
\* m.threw: an exception is propagating; every later statement is skipped
Mon == [config |-> config, console |-> console, orig |-> originalConsole,
        logs |-> recentLogs, posts |-> posts, awaited |-> inflight.awaited,
        floating |-> inflight.floating, last |-> lastReport, threw |-> FALSE]

Throw(m) == [m EXCEPT !.threw = TRUE]

maxLogs == 50

\* what captureConsoleLog stores for one argument
LogText(a) ==
    CASE a.kind = "string" -> a.text
      [] a.kind = "circular" -> "[Circular Object]"
      [] OTHER -> "{}"

\* captureConsoleLog as it would be if a full buffer dropped the entry just pushed
captureConsoleLogKeepOldest(m, type, args) ==
    LET logEntry == [type |-> type,
                     message |-> [i \in 1..Len(args) |-> LogText(args[i])],
                     timestamp |-> now]
        pushed == Append(m.logs, logEntry)
    IN  IF m.threw THEN m
        ELSE [m EXCEPT !.logs = IF Len(pushed) > maxLogs
                                THEN SubSeq(pushed, 1, maxLogs) ELSE pushed]

captureConsoleLog(m, type, args) ==
    LET logEntry == [type |-> type,
                     message |-> [i \in 1..Len(args) |-> LogText(args[i])],
                     timestamp |-> now]
        pushed == Append(m.logs, logEntry)
    IN  IF m.threw THEN m
        ELSE [m EXCEPT !.logs = IF Len(pushed) > maxLogs THEN Tail(pushed) ELSE pushed]

\* getRelevantLogs(errorTimestamp, windowMs = 5000)
windowMs == 5000

\* new Date(ms).toISOString(): the date and time to the second, then the milliseconds
toISOString(ms) == [second |-> ms \div 1000, millis |-> ms % 1000]

toUpperCase(type) ==
    CASE type = "log" -> "LOG"
      [] type = "warn" -> "WARN"
      [] OTHER -> "ERROR"

\* `[${timestamp}] ${log.type.toUpperCase()}: ${log.message}\n`
LogLine(log) == [time |-> toISOString(log.timestamp), kind |-> toUpperCase(log.type),
                 message |-> log.message]

LogHeader == [block |-> "--- Recent Console Activity ---"]

\* the text is the sequence of its lines; '' is the empty sequence
Lines(logs) == [i \in 1..Len(logs) |-> LogLine(logs[i])]

Reverse(seq) == [i \in 1..Len(seq) |-> seq[Len(seq) + 1 - i]]

\* getRelevantLogs as it would be with the window open at its start
getRelevantLogsOpenStart(logs, errorTimestamp, window) ==
    LET startTime == errorTimestamp - window
        InWindow(log) == log.timestamp > startTime /\ log.timestamp <= errorTimestamp
        relevantLogs == SelectSeq(logs, InWindow)
    IN  IF Len(relevantLogs) = 0 THEN <<>> ELSE <<LogHeader>> \o Lines(relevantLogs)

\* getRelevantLogs as it would be if it listed the newest entry first
getRelevantLogsNewestFirst(logs, errorTimestamp, window) ==
    LET startTime == errorTimestamp - window
        InWindow(log) == log.timestamp >= startTime /\ log.timestamp <= errorTimestamp
        relevantLogs == SelectSeq(logs, InWindow)
    IN  IF Len(relevantLogs) = 0 THEN <<>>
        ELSE <<LogHeader>> \o Reverse(Lines(relevantLogs))

getRelevantLogs(logs, errorTimestamp, window) ==
    LET startTime == errorTimestamp - window
        InWindow(log) == log.timestamp >= startTime /\ log.timestamp <= errorTimestamp
        relevantLogs == SelectSeq(logs, InWindow)
    IN  IF Len(relevantLogs) = 0 THEN <<>> ELSE <<LogHeader>> \o Lines(relevantLogs)

\* buildComprehensiveMessage(primaryMessage, errorContext): the primary message, the
\* log window ending at the value `clock` its own Date.now() reads, the context block
\* where there is a page URL, the stack trace where the error has one
buildComprehensiveMessage(m, primaryMessage, hasStack, clock) ==
    <<[primary |-> primaryMessage]>>
    \o getRelevantLogs(m.logs, clock, windowMs)
    \o (IF hasWindow THEN <<[block |-> "--- Context ---"]>> ELSE <<>>)
    \o (IF hasStack THEN <<[block |-> "--- Stack Trace ---"]>> ELSE <<>>)

\* the report a trigger would build if it left the accessToken out
BuildReportNoToken(m, errorType, severity) ==
    [errorType |-> errorType,
     severity |-> severity,
     environment |-> IF m.config = Null THEN "unknown" ELSE m.config.environment,
     accessToken |-> ""]

\* the report a trigger builds; `this.config?.accessToken || ''` is '' for no config,
\* for a config without the field and for an empty token
BuildReport(m, errorType, severity) ==
    [errorType |-> errorType,
     severity |-> severity,
     environment |-> IF m.config = Null THEN "unknown" ELSE m.config.environment,
     accessToken |-> IF m.config = Null \/ "accessToken" \notin DOMAIN m.config
                     THEN "" ELSE m.config.accessToken]

\* what reportError sends for a report: the body and the Authorization header
Envelope(report) ==
    [body |-> [event |-> "error.runtime",
               data |-> [errorType |-> report.errorType, severity |-> report.severity,
                         environment |-> report.environment,
                         accessToken |-> report.accessToken],
               source |-> "wingman-monitor"],
     authorization |-> <<"Bearer", report.accessToken>>]

\* reportError as it would be if building the report consumed the buffered entries
reportErrorDrainingLogs(m, report, awaited) ==
    IF m.threw \/ m.config = Null THEN m
    ELSE [m EXCEPT !.posts = @ + 1,
                   !.last = report,
                   !.awaited = IF awaited THEN @ + 1 ELSE @,
                   !.floating = IF awaited THEN @ ELSE @ + 1,
                   !.logs = <<>>]

\* reportError up to its await: the POST is issued and its response awaited
reportError(m, report, awaited) ==
    IF m.threw \/ m.config = Null THEN m
    ELSE [m EXCEPT !.posts = @ + 1,
                   !.last = report,
                   !.awaited = IF awaited THEN @ + 1 ELSE @,
                   !.floating = IF awaited THEN @ ELSE @ + 1]

\* the message handleConsoleError joins from the arguments
ConsoleMessage(args) == [i \in 1..Len(args) |->
                            IF IsString(args[i]) THEN args[i].text ELSE "{}"]

LooksLikeError(args) ==
    MsgIncludes(ConsoleMessage(args), "error") \/ SomeErrorInstance(args)

handleConsoleError(m, args) ==
    IF m.threw THEN m
    ELSE IF SomeCircular(args) THEN Throw(m)  \* JSON.stringify throws TypeError
    ELSE IF LooksLikeError(args)
         THEN reportError(m, BuildReport(m, "consoleError", "low"), FALSE)
         ELSE m

\* a call of console[fn](...args): the function in the slot runs
ConsoleCall(m, fn, args) ==
    IF m.threw THEN m
    ELSE IF ~IsMonitorHandler(m.console[fn]) THEN m   \* the host's own function
    ELSE IF IsMonitorHandler(m.orig[fn]) THEN Throw(m) \* the patch calls itself: RangeError
    ELSE LET captured == captureConsoleLog(m, fn, args)
         IN  IF fn = "error" THEN handleConsoleError(captured, args) ELSE captured

\* catch (e) { handler }: runs handler's console.error when the body threw
CatchWithConsoleError(m, text) ==
    IF m.threw
    THEN ConsoleCall([m EXCEPT !.threw = FALSE], "error", <<StrArg(text), ErrorArg("thrown")>>)
    ELSE m

\* n calls of reportError, one per handler that runs
RECURSIVE ReportTimes(_, _, _)
ReportTimes(m, report, n) ==
    IF n = 0 THEN m ELSE ReportTimes(reportError(m, report, FALSE), report, n - 1)

\* handleUncaughtException / handleUnhandledRejection, once per registered listener
handleUncaughtException(m, err) ==
    ReportTimes(m, BuildReport(m, "uncaughtException", "critical"),
                procListeners)

handleUnhandledRejection(m, err) ==
    ReportTimes(m, BuildReport(m, "unhandledRejection", "high"),
                procListeners)

\* a handler installed in a window slot runs: it reports, then chains to the saved
\* handler.  A saved handler that is one of the monitor's own chains to itself until
\* the stack overflows.
ChainedWindowHandler(m, slot, saved, report) ==
    IF ~IsMonitorHandler(slot) THEN m
    ELSE IF IsMonitorHandler(saved) THEN Throw(ReportTimes(m, report, StackDepth))
    ELSE reportError(m, report, FALSE)

handleWindowError(m, err) ==
    ChainedWindowHandler(m, winOnerror, originalErrorHandler,
                         BuildReport(m, "windowError", "medium"))

handleWindowUnhandledRejection(m, err) ==
    ChainedWindowHandler(m, winOnrejection, originalUnhandledRejectionHandler,
                         BuildReport(m, "windowUnhandledRejection", "high"))

\* ------------------------------------------------------------------------
\* The global handler slots and the monitor's saved handlers
\* ------------------------------------------------------------------------
Slots == [listeners |-> procListeners,
          onerror |-> winOnerror, onrejection |-> winOnrejection,
          origErr |-> originalErrorHandler, origRej |-> originalUnhandledRejectionHandler,
          console |-> console, orig |-> originalConsole]

\* the part of the slots that belongs to the runtime, not to the monitor
GlobalSlots(s) == [listeners |-> s.listeners, onerror |-> s.onerror,
                   onrejection |-> s.onrejection, console |-> s.console]

\* setupErrorHandlers, creating the closures of generation g
setupErrorHandlers(s, g) ==
    [listeners |-> IF hasProcess THEN s.listeners + 1 ELSE s.listeners,
     onerror |-> IF hasWindow THEN MonitorHandler(g) ELSE s.onerror,
     onrejection |-> IF hasWindow THEN MonitorHandler(g) ELSE s.onrejection,
     origErr |-> IF hasWindow THEN s.onerror ELSE s.origErr,
     origRej |-> IF hasWindow THEN s.onrejection ELSE s.origRej,
     console |-> [fn \in ConsoleFns |-> MonitorHandler(g)],
     orig |-> s.console]

\* removeErrorHandlers: process.removeListener is given the unbound methods, which
\* were never registered (the bound copies were), so no listener is removed; a window
\* slot is restored only when the saved handler is truthy; console is not touched
removeErrorHandlers(s) ==
    [s EXCEPT !.onerror = IF hasWindow /\ s.origErr # NullHandler THEN s.origErr ELSE @,
              !.onrejection = IF hasWindow /\ s.origRej # NullHandler THEN s.origRej ELSE @]

SetSlots(s) ==
    /\ procListeners' = s.listeners
    /\ winOnerror' = s.onerror
    /\ winOnrejection' = s.onrejection
    /\ originalErrorHandler' = s.origErr
    /\ originalUnhandledRejectionHandler' = s.origRej
    /\ console' = s.console
    /\ originalConsole' = s.orig

slotVars == <<procListeners, winOnerror, winOnrejection, originalErrorHandler,
              originalUnhandledRejectionHandler, console, originalConsole>>

\* the effects of a step on the log buffer, the POSTs and the history
Commit(m) ==
    /\ m.posts <= MaxPosts
    /\ Len(m.logs) <= MaxLogLen
    /\ recentLogs' = m.logs
    /\ posts' = m.posts
    /\ inflight' = [awaited |-> m.awaited, floating |-> m.floating]
    /\ lastReport' = m.last
    /\ raised' = m.threw

\* isActive() as it would be if it looked at the lifecycle state only
isActiveIgnoringEnabled == isStarted

\* isActive()
isActive == isStarted /\ config # Null /\ config.enabled = TRUE

\* ------------------------------------------------------------------------
\* Inputs
\* ------------------------------------------------------------------------
\* errors the host raises: message and context status
HostErrors == {[msg |-> <<"boom">>, status |-> "absent"],
               [msg |-> <<"chrome-extension://abc/x.js">>, status |-> "absent"],
               [msg |-> <<"Failed to fetch">>, status |-> "0"],
               [msg |-> <<"Script error">>, status |-> "absent"]}

\* the host's console calls: the function and its argument list
HostCalls == {[fn |-> "log", args |-> <<StrArg("hello")>>],
              [fn |-> "warn", args |-> <<CircularArg>>],
              [fn |-> "error", args |-> <<StrArg("an error occurred")>>],
              [fn |-> "error", args |-> <<CircularArg>>]}

\* outcomes of a webhook POST
PostOutcomes == {"ok", "timeout", "network", "http500"}

\* ------------------------------------------------------------------------
\* Initial state: a constructed monitor in a runtime of the host
\* ------------------------------------------------------------------------
Init ==
    /\ hasProcess \in BOOLEAN
    /\ hasWindow \in BOOLEAN
    /\ hasProcess # hasWindow   \* Node.js, or a browser whose process shim emits nothing
    /\ nodeEnv \in NodeEnvs
    /\ config = Null
    /\ isStarted = FALSE
    /\ setups = 0
    /\ procListeners = 0
    /\ winOnerror \in (IF hasWindow THEN {NullHandler, HostHandler} ELSE {NullHandler})
    /\ winOnrejection \in (IF hasWindow THEN {NullHandler, HostHandler} ELSE {NullHandler})
    /\ originalErrorHandler = NullHandler
    /\ originalUnhandledRejectionHandler = NullHandler
    /\ console = [fn \in ConsoleFns |-> HostHandler]
    /\ originalConsole = [fn \in ConsoleFns |-> HostHandler]
    /\ recentLogs = <<>>
    /\ now = 0
    /\ startsPending = 0
    /\ inflight = [awaited |-> 0, floating |-> 0]
    /\ posts = 0
    /\ triggers = 0
    /\ lastReport = NoReport
    /\ raised = FALSE
    /\ preStart = NoSlots
    /\ filterCall = NoCall
    /\ testsPending = 0
    /\ configFile = NoFile
    /\ storeConfig = Null
    /\ storeCall = NoCall
    /\ cliCall = NoCall
    /\ envCall = NoCall
    /\ winCall = NoCall
    /\ stoppedDuringStart = FALSE
    /\ other = NoOther

\* ------------------------------------------------------------------------
\* The host and its runtime
\* ------------------------------------------------------------------------
\* the host calls console.error / console.warn / console.log
HostConsole(fn, args) ==
    /\ triggers < MaxTriggers
    /\ triggers' = IF fn = "error" /\ ~SomeCircular(args) /\ LooksLikeError(args)
                   THEN triggers + 1 ELSE triggers
    /\ Commit(ConsoleCall(Mon, fn, args))
    /\ UNCHANGED <<runtimeVars, hostVars, config, isStarted, setups, slotVars, now,
                   startsPending, preStart>>

\* the runtime emits 'uncaughtException' to the process listeners
ProcessUncaughtException(err) ==
    /\ hasProcess
    /\ triggers < MaxTriggers
    /\ triggers' = triggers + 1
    /\ Commit(handleUncaughtException(Mon, err))
    /\ UNCHANGED <<runtimeVars, hostVars, config, isStarted, setups, slotVars, now,
                   startsPending, preStart>>

\* the runtime emits 'unhandledRejection' to the process listeners
ProcessUnhandledRejection(err) ==
    /\ hasProcess
    /\ triggers < MaxTriggers
    /\ triggers' = triggers + 1
    /\ Commit(handleUnhandledRejection(Mon, err))
    /\ UNCHANGED <<runtimeVars, hostVars, config, isStarted, setups, slotVars, now,
                   startsPending, preStart>>

\* the browser calls window.onerror
WindowError(err) ==
    /\ hasWindow
    /\ triggers < MaxTriggers
    /\ triggers' = triggers + 1
    /\ Commit(handleWindowError(Mon, err))
    /\ UNCHANGED <<runtimeVars, hostVars, config, isStarted, setups, slotVars, now,
                   startsPending, preStart>>

\* the browser calls window.onunhandledrejection
WindowUnhandledRejection(err) ==
    /\ hasWindow
    /\ triggers < MaxTriggers
    /\ triggers' = triggers + 1
    /\ Commit(handleWindowUnhandledRejection(Mon, err))
    /\ UNCHANGED <<runtimeVars, hostVars, config, isStarted, setups, slotVars, now,
                   startsPending, preStart>>

\* ------------------------------------------------------------------------
\* The monitor's public operations
\* ------------------------------------------------------------------------
\* ConfigManager.load() as start() sees it: the value it resolves to
LoadResult(f) == IF f \in {NoFile, Corrupt} THEN Null ELSE f

\* ConfigManager.load(): a read or parse failure is logged with console.error
load(m, f) ==
    IF f = Corrupt
    THEN ConsoleCall(m, "error", <<StrArg("Failed to load Wingman config:"), ErrorArg("read")>>)
    ELSE m

\* the branch as it would be if start() did not look at isStarted
StartPathUnguarded(cfg) ==
    IF cfg = Null THEN "noConfig"
    ELSE IF ~cfg.enabled THEN "disabled"
    ELSE "setup"

\* the branch start() takes once load() has resolved to cfg
StartPath(cfg) ==
    IF cfg = Null THEN "noConfig"
    ELSE IF ~cfg.enabled THEN "disabled"
    ELSE IF isStarted THEN "already"
    ELSE "setup"

StartMessage(path) ==
    CASE path = "noConfig" -> [fn |-> "warn", text |-> "Wingman: No configuration found."]
      [] path = "disabled" -> [fn |-> "log", text |-> "Wingman: Monitoring is disabled."]
      [] path = "already" -> [fn |-> "warn", text |-> "Wingman: Already started."]
      [] OTHER -> [fn |-> "log", text |-> "Wingman: Monitoring started"]

\* start() is called: it runs up to `await this.configManager.load()`
StartCall ==
    /\ startsPending < MaxPendingStarts
    /\ startsPending' = startsPending + 1
    /\ UNCHANGED <<runtimeVars, hostVars, config, isStarted, setups, slotVars, recentLogs,
                   now, inflight, posts, triggers, lastReport, raised, preStart>>

\* start() resumes and runs to its end; f is what .wingman.json holds when load()
\* reads it (the CLI and the user write that file at any time)
StartResume(f) ==
    /\ startsPending > 0
    /\ startsPending' = startsPending - 1
    /\ LET loadedM == load(Mon, f)
           cfg == LoadResult(f)
           path == IF loadedM.threw THEN "loadThrew" ELSE StartPath(cfg)
           s1 == IF path = "setup" THEN setupErrorHandlers(Slots, setups + 1) ELSE Slots
           m1 == IF loadedM.threw THEN loadedM
                 ELSE [loadedM EXCEPT !.config = cfg, !.console = s1.console, !.orig = s1.orig]
           said == StartMessage(path)
           m2 == ConsoleCall(m1, said.fn, <<StrArg(said.text)>>)
           m3 == CatchWithConsoleError(m2, "Wingman: Failed to start monitoring:")
       IN  /\ path = "setup" => setups < MaxSetups
           /\ config' = m3.config
           /\ isStarted' = (isStarted \/ path = "setup")
           /\ setups' = IF path = "setup" THEN setups + 1 ELSE setups
           /\ preStart' = IF path = "setup" THEN GlobalSlots(Slots) ELSE preStart
           /\ SetSlots(s1)
           /\ Commit(m3)
    /\ UNCHANGED <<runtimeVars, hostVars, now, triggers>>

\* stop() as it would be without its `if (!this.isStarted) return`
StopUnguarded ==
    /\ SetSlots(removeErrorHandlers(Slots))
    /\ isStarted' = FALSE
    /\ Commit(ConsoleCall(Mon, "log", <<StrArg("Wingman: Monitoring stopped")>>))
    /\ UNCHANGED <<runtimeVars, hostVars, config, setups, now, startsPending, triggers,
                   preStart>>

\* stop()
Stop ==
    /\ IF ~isStarted
       THEN /\ UNCHANGED <<isStarted, slotVars>>
            /\ Commit(Mon)
       ELSE /\ SetSlots(removeErrorHandlers(Slots))
            /\ isStarted' = FALSE
            /\ Commit(ConsoleCall(Mon, "log", <<StrArg("Wingman: Monitoring stopped")>>))
    /\ UNCHANGED <<runtimeVars, hostVars, config, setups, now, startsPending, triggers,
                   preStart>>

\* reportCustomError as it would be if it asked the Error Filter first
reportCustomErrorFiltered(m, err) ==
    IF shouldReportError(nodeEnv, err.msg, err.status)
    THEN reportError(m, BuildReport(m, "customError", "medium"), TRUE)
    ELSE m

\* reportCustomError(error, metadata), up to the await of the POST
reportCustomError(m, err) ==
    reportError(m, BuildReport(m, "customError", "medium"), TRUE)

ReportCustomError(err) ==
    /\ triggers < MaxTriggers
    /\ triggers' = triggers + 1
    /\ Commit(reportCustomError(Mon, err))
    /\ UNCHANGED <<runtimeVars, hostVars, config, isStarted, setups, slotVars, now,
                   startsPending, preStart>>

\* a rejected promise nobody awaits: the runtime raises an unhandled rejection
UnhandledRejectionOf(m) ==
    LET err == [msg |-> <<"Maximum call stack size exceeded">>, status |-> "absent"]
        quiet == [m EXCEPT !.threw = FALSE]
        p == IF hasProcess THEN handleUnhandledRejection(quiet, err) ELSE quiet
        w == IF hasWindow THEN handleWindowUnhandledRejection(p, err) ELSE p
    IN  Throw(w)

\* reportError after its await: the POST's outcome arrives
reportErrorDone(m, outcome) ==
    LET tried == IF outcome = "ok"
                 THEN ConsoleCall(m, "log", <<StrArg("Wingman: Error reported successfully")>>)
                 ELSE Throw(m)
    IN  CatchWithConsoleError(tried, "Wingman: Failed to report error:")

CompletePost(kind, outcome) ==
    /\ inflight[kind] > 0
    /\ kind = "awaited" => inflight.awaited > testsPending  \* testWebhook awaits its own
    /\ LET m0 == IF kind = "awaited" THEN [Mon EXCEPT !.awaited = @ - 1]
                 ELSE [Mon EXCEPT !.floating = @ - 1]
           m1 == reportErrorDone(m0, outcome)
           m2 == IF m1.threw /\ kind = "floating" THEN UnhandledRejectionOf(m1) ELSE m1
       IN  Commit(m2)
    /\ UNCHANGED <<runtimeVars, hostVars, config, isStarted, setups, slotVars, now,
                   startsPending, triggers, preStart>>

Next ==
    \/ \E call \in HostCalls : HostConsole(call.fn, call.args)
    \/ \E err \in HostErrors : ProcessUncaughtException(err)
    \/ \E err \in HostErrors : ProcessUnhandledRejection(err)
    \/ \E err \in HostErrors : WindowError(err)
    \/ \E err \in HostErrors : WindowUnhandledRejection(err)
    \/ StartCall
    \/ \E f \in ConfigFiles : StartResume(f)
    \/ Stop
    \/ \E err \in HostErrors : ReportCustomError(err)
    \/ \E kind \in {"awaited", "floating"}, outcome \in PostOutcomes : CompletePost(kind, outcome)

Spec == Init /\ [][Next]_vars

\* ------------------------------------------------------------------------
\* The log buffer of a STARTED monitor under a running clock
\* ------------------------------------------------------------------------
\* the effects of a step, with no bound on what accumulates
Effects(m) ==
    /\ recentLogs' = m.logs
    /\ posts' = m.posts
    /\ inflight' = [awaited |-> m.awaited, floating |-> m.floating]
    /\ lastReport' = m.last
    /\ raised' = m.threw

\* the runtime one millisecond after the first start() found an enabled config:
\* setupErrorHandlers has run once and start() has logged through the patched console
Started ==
    /\ hasProcess \in BOOLEAN
    /\ hasWindow \in BOOLEAN
    /\ hasProcess # hasWindow
    /\ nodeEnv \in NodeEnvs
    /\ config \in {f \in ConfigDocs : f.enabled}
    /\ isStarted = TRUE
    /\ setups = 1
    /\ procListeners = IF hasProcess THEN 1 ELSE 0
    /\ originalErrorHandler \in (IF hasWindow THEN {NullHandler, HostHandler} ELSE {NullHandler})
    /\ originalUnhandledRejectionHandler
            \in (IF hasWindow THEN {NullHandler, HostHandler} ELSE {NullHandler})
    /\ winOnerror = IF hasWindow THEN MonitorHandler(1) ELSE NullHandler
    /\ winOnrejection = IF hasWindow THEN MonitorHandler(1) ELSE NullHandler
    /\ console = [fn \in ConsoleFns |-> MonitorHandler(1)]
    /\ originalConsole = [fn \in ConsoleFns |-> HostHandler]
    /\ recentLogs = <<[type |-> "log", message |-> <<"Wingman: Monitoring started">>,
                       timestamp |-> 0]>>
    /\ now = 1
    /\ startsPending = 0
    /\ inflight = [awaited |-> 0, floating |-> 0]
    /\ posts = 0
    /\ triggers = 0
    /\ lastReport = NoReport
    /\ raised = FALSE
    /\ preStart = [listeners |-> 0, onerror |-> originalErrorHandler,
                   onrejection |-> originalUnhandledRejectionHandler,
                   console |-> [fn \in ConsoleFns |-> HostHandler]]
    /\ filterCall = NoCall
    /\ testsPending = 0
    /\ configFile = NoFile
    /\ storeConfig = Null
    /\ storeCall = NoCall
    /\ cliCall = NoCall
    /\ envCall = NoCall
    /\ winCall = NoCall
    /\ stoppedDuringStart = FALSE
    /\ other = NoOther

\* the host calls console[fn](...args), and `elapsed` milliseconds pass
HostLogs(fn, args, elapsed) ==
    /\ Effects(ConsoleCall(Mon, fn, args))
    /\ now' = now + elapsed
    /\ UNCHANGED <<runtimeVars, hostVars, config, isStarted, setups, slotVars,
                   startsPending, triggers, preStart>>

\* the report of reportCustomError with its message and timestamp
CustomErrorReport(m, err, tick) ==
    [errorType |-> "customError",
     severity |-> "medium",
     environment |-> BuildReport(m, "customError", "medium").environment,
     accessToken |-> BuildReport(m, "customError", "medium").accessToken,
     message |-> buildComprehensiveMessage(m, err.msg, TRUE, now + tick),
     timestamp |-> now]

\* milliseconds the clock advances between `const timestamp = Date.now()` and the
\* Date.now() of buildComprehensiveMessage
ClockReads == {0, 1}

\* reportCustomError(error), up to the await of the POST, at the current time
ReportCustomErrorNow(err, tick) ==
    /\ triggers' = triggers + 1
    /\ Effects(reportError(Mon, CustomErrorReport(Mon, err, tick), TRUE))
    /\ now' = now + tick
    /\ UNCHANGED <<runtimeVars, hostVars, config, isStarted, setups, slotVars,
                   startsPending, preStart>>

\* console calls that are recorded and not reported
LogCalls == {[fn |-> "log", args |-> <<StrArg("hello")>>],
             [fn |-> "warn", args |-> <<CircularArg>>]}

\* time that passes after a console call: none, a millisecond, the whole window
Elapsed == {0, 1, windowMs}

\* console calls and reports; the clock stands still while a report is built
WindowNext ==
    \/ /\ Len(recentLogs) < MaxWindowLen
       /\ \E call \in LogCalls, elapsed \in Elapsed : HostLogs(call.fn, call.args, elapsed)
    \/ /\ posts < MaxPosts
       /\ ReportCustomErrorNow([msg |-> <<"boom">>, status |-> "absent"], 0)

\* a STARTED monitor in production, in Node.js or in a page that had no handlers
WindowInit ==
    /\ Started
    /\ nodeEnv = "production"
    /\ originalErrorHandler = NullHandler
    /\ originalUnhandledRejectionHandler = NullHandler

WindowSpec == WindowInit /\ [][WindowNext]_vars

\* WindowSpec with a clock that may advance while a report is built
ClockNext ==
    \/ /\ Len(recentLogs) < MaxWindowLen
       /\ \E call \in LogCalls, elapsed \in Elapsed : HostLogs(call.fn, call.args, elapsed)
    \/ /\ posts < MaxPosts
       /\ \E tick \in ClockReads :
             ReportCustomErrorNow([msg |-> <<"boom">>, status |-> "absent"], tick)

ClockSpec == WindowInit /\ [][ClockNext]_vars

\* one console.log per millisecond
BufferNext == now < MaxRecords /\ HostLogs("log", <<StrArg("hello")>>, 1)

BufferSpec == Started /\ [][BufferNext]_vars

\* ------------------------------------------------------------------------
\* The Error Filter as the host calls it
\* ------------------------------------------------------------------------
\* process.env.NODE_ENV: the two the monitor is run in, 'test', and not set
FilterEnvs == NodeEnvs \cup {"test", "unset"}

\* error.message, as the texts it is made of
FilterMessages == {<<>>, <<"boom">>, <<"script error">>,
                   <<"chrome-extension://abc/x.js">>, <<"boom", "chrome-extension://abc/x.js">>,
                   <<"Failed to fetch">>, <<"Failed to fetch", "Script error">>,
                   <<"Script error">>, <<"Script error in page">>}

\* context?.status: the number 0, another number, no context or no status
FilterStatuses == {"0", "404", "absent"}

\* a constructed monitor in Node.js, with NODE_ENV any of FilterEnvs
FilterInit ==
    /\ hasProcess = TRUE
    /\ hasWindow = FALSE
    /\ nodeEnv \in FilterEnvs
    /\ config = Null
    /\ isStarted = FALSE
    /\ setups = 0
    /\ procListeners = 0
    /\ winOnerror = NullHandler
    /\ winOnrejection = NullHandler
    /\ originalErrorHandler = NullHandler
    /\ originalUnhandledRejectionHandler = NullHandler
    /\ console = [fn \in ConsoleFns |-> HostHandler]
    /\ originalConsole = [fn \in ConsoleFns |-> HostHandler]
    /\ recentLogs = <<>>
    /\ now = 0
    /\ startsPending = 0
    /\ inflight = [awaited |-> 0, floating |-> 0]
    /\ posts = 0
    /\ triggers = 0
    /\ lastReport = NoReport
    /\ raised = FALSE
    /\ preStart = NoSlots
    /\ filterCall = NoCall
    /\ testsPending = 0
    /\ configFile = NoFile
    /\ storeConfig = Null
    /\ storeCall = NoCall
    /\ cliCall = NoCall
    /\ envCall = NoCall
    /\ winCall = NoCall
    /\ stoppedDuringStart = FALSE
    /\ other = NoOther

\* the host calls shouldReportError(error, context)
CallFilter(msg, status) ==
    /\ filterCall' = [called |-> TRUE, msg |-> msg, status |-> status,
                      result |-> shouldReportError(nodeEnv, msg, status)]
    /\ UNCHANGED <<runtimeVars, envCall, peerVars, testsPending, storeVars, config, isStarted, setups, slotVars,
                   recentLogs, now, startsPending, inflight, posts, triggers,
                   lastReport, raised, preStart>>

\* getEnvironmentConfig as it would be if debug logs were on outside production
getEnvironmentConfigDebugElsewhere(env) ==
    LET isProduction == env = "production"
    IN  [enableErrorReporting |-> isProduction,
         enablePerformanceMonitoring |-> isProduction,
         enableDebugLogs |-> ~isProduction,
         apiEndpoint |-> IF isProduction THEN "https://api.wingman.dev"
                         ELSE "http://localhost:3001"]

\* getEnvironmentConfig() with process.env.NODE_ENV = env; VERCEL is read and not used
getEnvironmentConfig(env) ==
    LET isProduction == env = "production"
        isDevelopment == env = "development"
    IN  [enableErrorReporting |-> isProduction,
         enablePerformanceMonitoring |-> isProduction,
         enableDebugLogs |-> isDevelopment,
         apiEndpoint |-> IF isProduction THEN "https://api.wingman.dev"
                         ELSE "http://localhost:3001"]

\* the host calls getEnvironmentConfig()
CallEnvironmentConfig ==
    /\ envCall' = [called |-> TRUE, result |-> getEnvironmentConfig(nodeEnv)]
    /\ UNCHANGED <<runtimeVars, filterCall, testsPending, storeVars, peerVars, config,
                   isStarted, setups, slotVars, recentLogs, now, startsPending, inflight, posts,
                   triggers, lastReport, raised, preStart>>

FilterNext ==
    \/ \E msg \in FilterMessages, status \in FilterStatuses : CallFilter(msg, status)
    \/ CallEnvironmentConfig

FilterSpec == FilterInit /\ [][FilterNext]_vars

\* ------------------------------------------------------------------------
\* All public operations of the monitor
\* ------------------------------------------------------------------------
\* the report testWebhook() builds
TestReport(m) ==
    [errorType |-> "testError",
     severity |-> "low",
     environment |-> IF m.config = Null THEN "test" ELSE m.config.environment,
     accessToken |-> BuildReport(m, "testError", "low").accessToken]

TestLog == <<StrArg("Test webhook call sent successfully.")>>

\* testWebhook() is called: with no config reportError returns at once and the call
\* runs to its end; otherwise it issues the POST and awaits reportError
TestWebhook ==
    /\ IF config = Null
       THEN /\ Commit(ConsoleCall(Mon, "log", TestLog))
            /\ UNCHANGED testsPending
       ELSE /\ Commit(reportError(Mon, TestReport(Mon), TRUE))
            /\ testsPending' = testsPending + 1
    /\ UNCHANGED <<runtimeVars, filterCall, envCall, peerVars, storeVars, config, isStarted, setups, slotVars, now,
                   startsPending, triggers, preStart>>

\* testWebhook() resumes when its POST's outcome arrives, and logs
TestWebhookDone(outcome) ==
    /\ testsPending > 0
    /\ testsPending' = testsPending - 1
    /\ Commit(ConsoleCall(reportErrorDone([Mon EXCEPT !.awaited = @ - 1], outcome),
                          "log", TestLog))
    /\ UNCHANGED <<runtimeVars, filterCall, envCall, peerVars, storeVars, config, isStarted, setups, slotVars, now,
                   startsPending, triggers, preStart>>

PublicNext ==
    \/ Next
    \/ TestWebhook
    \/ \E outcome \in PostOutcomes : TestWebhookDone(outcome)

PublicSpec == Init /\ [][PublicNext]_vars

\* ------------------------------------------------------------------------
\* The access token of the reports, with .wingman.json rewritten between starts
\* ------------------------------------------------------------------------
\* enabled configs with a token, another token, an empty token and no token field
TokenDocs == [enabled : {TRUE}, accessToken : {"tok", "tok2", ""},
              environment : {"production"}]
             \cup {[enabled |-> TRUE, environment |-> "production"]}

TokenFiles == TokenDocs \cup {NoFile}

\* a constructed monitor in production, in Node.js or in a page that had no handlers
TokenInit ==
    /\ Init
    /\ nodeEnv = "production"
    /\ winOnerror = NullHandler
    /\ winOnrejection = NullHandler

TokenNext ==
    \/ StartCall
    \/ \E f \in TokenFiles : StartResume(f)
    \/ Stop
    \/ HostConsole("error", <<StrArg("an error occurred")>>)
    \/ ProcessUncaughtException([msg |-> <<"boom">>, status |-> "absent"])
    \/ WindowError([msg |-> <<"boom">>, status |-> "absent"])
    \/ ReportCustomError([msg |-> <<"boom">>, status |-> "absent"])
    \/ \E kind \in {"awaited", "floating"}, outcome \in {"ok", "network"} :
            CompletePost(kind, outcome)

TokenSpec == TokenInit /\ [][TokenNext]_vars

\* ------------------------------------------------------------------------
\* ConfigManager as the host uses it on the project's .wingman.json
\* ------------------------------------------------------------------------
MaxClock == 2       \* StoreSpec: milliseconds the clock advances

\* a document with no field
EmptyDoc == [k \in {} |-> TRUE]

\* object spread { ...a, ...b }: b's fields override a's
Merge(a, b) == [k \in DOMAIN a \cup DOMAIN b |-> IF k \in DOMAIN b THEN b[k] ELSE a[k]]

\* documents without the optional `enabled` field
BareDocs == [accessToken : AccessTokens, environment : {"production"}]

\* what .wingman.json can hold when the user or a tool has written it
StoreFiles == {NoFile, Corrupt} \cup ConfigDocs \cup BareDocs

\* arguments of initialize(config)
StoreCfgs == BareDocs
             \cup {Merge(d, [enabled |-> FALSE]) : d \in BareDocs}
             \cup {Merge(d, [enabled |-> FALSE, createdAt |-> toISOString(0)]) : d \in BareDocs}

\* arguments of save(config: Partial<WingmanConfig>)
StorePartials == {EmptyDoc, [enabled |-> FALSE], [enabled |-> TRUE], [accessToken |-> "tok2"]}

\* how fs.writeJson ends: written; refused, the file untouched; cut short, the file unparsable
WriteOutcomes == {"ok", "denied", "partial"}

writeJson(file, doc, outcome) ==
    CASE outcome = "ok" -> doc
      [] outcome = "denied" -> file
      [] OTHER -> Corrupt

\* initialize as it would be if the caller's fields won over the defaults
initializeKeepingCfg(cfg, t) == Merge([enabled |-> TRUE, createdAt |-> toISOString(t)], cfg)

\* ConfigManager.initialize(config) at clock value t: the new this.config
initialize(cfg, t) == Merge(cfg, [enabled |-> TRUE, createdAt |-> toISOString(t)])

\* save as it would be if the fields in memory won over the partial
saveKeepingOld(old, partial) == Merge(partial, old)

\* ConfigManager.save(config) with a config in memory: the new this.config
save(old, partial) == Merge(old, partial)

\* isEnabled as it would be if only an explicit false disabled
isEnabledUnlessFalse(c) == c # Null /\ ("enabled" \in DOMAIN c => c.enabled)

\* ConfigManager.isEnabled(): this.config?.enabled === true
isEnabled(c) == c # Null /\ "enabled" \in DOMAIN c /\ c.enabled = TRUE

\* the user or a tool writes, damages or deletes .wingman.json
EditFile(f) ==
    /\ configFile' = f
    /\ UNCHANGED <<runtimeVars, filterCall, envCall, peerVars, testsPending, storeConfig, storeCall, cliCall,
                   config, isStarted, setups, slotVars, recentLogs, now, startsPending,
                   inflight, posts, triggers, lastReport, raised, preStart>>

\* a millisecond passes
Tick ==
    /\ now < MaxClock
    /\ now' = now + 1
    /\ UNCHANGED <<runtimeVars, hostVars, config, isStarted, setups, slotVars, recentLogs,
                   startsPending, inflight, posts, triggers, lastReport, raised, preStart>>

\* what a ConfigManager call leaves unchanged besides the store, the file and the console
storeFrame == <<runtimeVars, filterCall, envCall, peerVars, testsPending, cliCall, config, isStarted, setups,
                slotVars, now, startsPending, triggers, preStart>>

\* the host calls initialize(cfg)
StoreInitialize(cfg) ==
    /\ storeConfig' = initialize(cfg, now)
    /\ storeCall' = [called |-> TRUE, op |-> "initialize", cfg |-> cfg, threw |-> FALSE]
    /\ Commit(Mon)
    /\ UNCHANGED <<storeFrame, configFile>>

\* the host calls load(), which runs to its end
StoreLoad ==
    /\ LET m == load(Mon, configFile)
           result == LoadResult(configFile)
       IN  /\ storeConfig' = IF result = Null THEN storeConfig ELSE result
           /\ storeCall' = [called |-> TRUE, op |-> "load", result |-> result,
                            threw |-> m.threw]
           /\ Commit(m)
    /\ UNCHANGED <<storeFrame, configFile>>

\* the host calls save(partial), whose write ends in `outcome`
StoreSave(partial, outcome) ==
    /\ IF storeConfig = Null
       THEN /\ UNCHANGED <<storeConfig, configFile>>
            /\ storeCall' = [called |-> TRUE, op |-> "save", wrote |-> FALSE,
                             logged |-> FALSE, threw |-> FALSE]
            /\ Commit(Mon)
       ELSE LET merged == save(storeConfig, partial)
                m == IF outcome = "ok" THEN Mon
                     ELSE ConsoleCall(Mon, "error",
                              <<StrArg("Failed to save Wingman config:"), ErrorArg("write")>>)
            IN  /\ storeConfig' = merged
                /\ configFile' = writeJson(configFile, merged, outcome)
                /\ storeCall' = [called |-> TRUE, op |-> "save", wrote |-> outcome = "ok",
                                 logged |-> outcome # "ok", threw |-> m.threw]
                /\ Commit(m)
    /\ UNCHANGED storeFrame

\* the host calls isEnabled()
StoreIsEnabled ==
    /\ storeCall' = [called |-> TRUE, op |-> "isEnabled", result |-> isEnabled(storeConfig),
                     threw |-> FALSE]
    /\ Commit(Mon)
    /\ UNCHANGED <<storeFrame, configFile, storeConfig>>

\* a constructed ConfigManager in Node.js, the project without a config file
StoreInit ==
    /\ Init
    /\ hasProcess
    /\ nodeEnv = "production"

StoreNext ==
    \/ \E f \in StoreFiles : EditFile(f)
    \/ Tick
    \/ \E cfg \in StoreCfgs : StoreInitialize(cfg)
    \/ StoreLoad
    \/ \E partial \in StorePartials, outcome \in WriteOutcomes : StoreSave(partial, outcome)
    \/ StoreIsEnabled

StoreSpec == StoreInit /\ [][StoreNext]_vars

\* ------------------------------------------------------------------------
\* The wingman CLI and a monitor of the same project
\* ------------------------------------------------------------------------
\* projectId in the webhook's answer to `wingman init`: none, or an id
ProjectIds == {"none", "p1"}

\* the document `wingman init` writes at clock value t
InitDoc(token, projectId, t) ==
    LET configData == [accessToken |-> token, environment |-> "production",
                       enabled |-> TRUE, createdAt |-> toISOString(t)]
    IN  IF projectId = "none" THEN configData
        ELSE Merge(configData, [projectId |-> projectId])

\* the commands' assignment as it would be if it left the document alone
setEnabledIgnored(doc, flag) == doc

\* `config.enabled = false` of disable, `config.enabled = true` of enable
setEnabled(doc, flag) == Merge(doc, [enabled |-> flag])

\* what a CLI command leaves unchanged besides the file
cliFrame == <<runtimeVars, filterCall, envCall, peerVars, testsPending, storeConfig, storeCall, config,
              isStarted, setups, slotVars, recentLogs, now, startsPending, inflight,
              posts, triggers, lastReport, raised, preStart>>

\* how the POST of the webhook test ends: a 2xx response, or axios throws
WebhookResponses == {"2xx", "refused", "401", "404", "5xx", "timeout"}

\* the webhook test as it would be if it took every outcome for a success
testWebhookConnectionTrusting(response) == [success |-> TRUE]

\* testWebhookConnection(webhookUrl, accessToken, environment)
testWebhookConnection(response) == [success |-> response = "2xx"]

\* `wingman init <accessToken>`: the webhook test, then the write of .wingman.json
CliInit(token, response, projectId, outcome) ==
    /\ IF ~testWebhookConnection(response).success
       THEN /\ cliCall' = [called |-> TRUE, cmd |-> "init", outcome |-> "webhookFailed",
                           exit |-> 1]
            /\ UNCHANGED configFile
       ELSE /\ configFile' = writeJson(configFile, InitDoc(token, projectId, now), outcome)
            /\ cliCall' = [called |-> TRUE, cmd |-> "init",
                           outcome |-> IF outcome = "ok" THEN "written" ELSE "failed",
                           exit |-> IF outcome = "ok" THEN 0 ELSE 1]
    /\ UNCHANGED cliFrame

\* `wingman disable` (flag FALSE) and `wingman enable` (flag TRUE)
CliSetEnabled(flag, outcome) ==
    /\ LET cmd == IF flag THEN "enable" ELSE "disable"
       IN  IF configFile = NoFile
           THEN /\ cliCall' = [called |-> TRUE, cmd |-> cmd, outcome |-> "notInitialized"]
                /\ UNCHANGED configFile
           ELSE IF configFile = Corrupt
           THEN /\ cliCall' = [called |-> TRUE, cmd |-> cmd, outcome |-> "failed"]
                /\ UNCHANGED configFile
           ELSE /\ configFile' = writeJson(configFile, setEnabled(configFile, flag), outcome)
                /\ cliCall' = [called |-> TRUE, cmd |-> cmd, read |-> configFile,
                               outcome |-> IF outcome = "ok" THEN "written" ELSE "failed"]
    /\ UNCHANGED cliFrame

\* start() resumes: load() reads the project's .wingman.json
StartResumeOnFile == StartResume(configFile)

\* a constructed monitor in Node.js, the project not initialized; the clock is
\* held still, createdAt is the one field that reads it
CliInit0 ==
    /\ Init
    /\ hasProcess
    /\ nodeEnv = "production"

CliNext ==
    \/ \E response \in WebhookResponses, projectId \in ProjectIds, outcome \in WriteOutcomes :
          CliInit("tok", response, projectId, outcome)
    \/ \E flag \in BOOLEAN, outcome \in WriteOutcomes : CliSetEnabled(flag, outcome)
    \/ \E f \in {NoFile, Corrupt} : EditFile(f)
    \/ StartCall
    \/ StartResumeOnFile
    \/ Stop

CliSpec == CliInit0 /\ [][CliNext]_vars

\* ------------------------------------------------------------------------
\* The page's error events and what the installed hook returns
\* ------------------------------------------------------------------------
\* what a handler of the host returns from an onerror call
HostReturns == {"true", "false", "undefined"}

\* the call of whatever is in window.onerror: the functions that run, in order, and
\* what the call returns.  handleWindowError reports, then calls the saved handler and
\* returns its value, or returns true when the saved handler is null; a saved handler
\* that is the monitor's own calls itself until the stack overflows.
onerrorCall(slot, saved, ret) ==
    IF slot = NullHandler
    THEN [threw |-> FALSE, ran |-> <<>>, returned |-> "nothing"]
    ELSE IF slot = HostHandler
    THEN [threw |-> FALSE, ran |-> <<"host">>, returned |-> ret]
    ELSE IF IsMonitorHandler(saved)
    THEN [threw |-> TRUE, ran |-> [i \in 1..StackDepth |-> "reportError"],
          returned |-> "nothing"]
    ELSE IF saved = HostHandler
    THEN [threw |-> FALSE, ran |-> <<"reportError", "host">>, returned |-> ret]
    ELSE [threw |-> FALSE, ran |-> <<"reportError">>, returned |-> "true"]

\* the browser calls window.onerror; ret is what the host's handler returns if it runs
WindowErrorCall(err, ret) ==
    /\ hasWindow
    /\ triggers < MaxTriggers
    /\ triggers' = triggers + 1
    /\ Commit(handleWindowError(Mon, err))
    /\ winCall' = [called |-> TRUE, hostReturns |-> ret,
                   outcome |-> onerrorCall(winOnerror, originalErrorHandler, ret)]
    /\ UNCHANGED <<runtimeVars, filterCall, envCall, testsPending, storeVars,
                   stoppedDuringStart, other, config, isStarted, setups, slotVars, now,
                   startsPending, preStart>>

\* a constructed monitor in a page, in production
PageInit ==
    /\ Init
    /\ hasWindow
    /\ nodeEnv = "production"

PageNext ==
    \/ StartCall
    \/ \E f \in ConfigFiles : StartResume(f)
    \/ Stop
    \/ \E err \in HostErrors, ret \in HostReturns : WindowErrorCall(err, ret)
    \/ \E err \in HostErrors : WindowUnhandledRejection(err)

PageSpec == PageInit /\ [][PageNext]_vars

\* ------------------------------------------------------------------------
\* start() called again while earlier calls are suspended at the config load
\* ------------------------------------------------------------------------
MaxRacingStarts == 2    \* RaceSpec: start() calls suspended at the same time

\* start() is called, whether or not earlier calls are still suspended
StartCallRacing ==
    /\ startsPending < MaxRacingStarts
    /\ startsPending' = startsPending + 1
    /\ UNCHANGED <<runtimeVars, hostVars, config, isStarted, setups, slotVars, recentLogs,
                   now, inflight, posts, triggers, lastReport, raised, preStart>>

RaceNext ==
    \/ StartCallRacing
    \/ \E f \in ConfigFiles : StartResume(f)

RaceSpec == Init /\ [][RaceNext]_vars

\* ------------------------------------------------------------------------
\* stop() and the provider's unmount while start() is suspended
\* ------------------------------------------------------------------------
\* what these steps leave unchanged besides the lifecycle, the slots and the console
unmountFrame == <<runtimeVars, filterCall, envCall, testsPending, storeVars, winCall, other,
                  config, setups, now, startsPending, triggers, preStart>>

\* stop() is called while a start() call is suspended at the config load
StopDuringStart ==
    /\ startsPending > 0
    /\ stoppedDuringStart' = TRUE
    /\ IF ~isStarted
       THEN /\ UNCHANGED <<isStarted, slotVars>>
            /\ Commit(Mon)
       ELSE /\ SetSlots(removeErrorHandlers(Slots))
            /\ isStarted' = FALSE
            /\ Commit(ConsoleCall(Mon, "log", <<StrArg("Wingman: Monitoring stopped")>>))
    /\ UNCHANGED unmountFrame

\* componentWillUnmount while componentDidMount is suspended in `await
\* this.monitor.start()`: this.isActive is assigned after that await and is still
\* false, so `if (this.isActive) this.monitor.stop()` does not call stop()
UnmountDuringStart ==
    /\ startsPending > 0
    /\ ~isStarted
    /\ stoppedDuringStart' = TRUE
    /\ Commit(Mon)
    /\ UNCHANGED <<unmountFrame, isStarted, slotVars>>

\* start() and stop() until a stop() or an unmount has raced a start(); from then on
\* the suspended calls run to their end and nothing else is called
UnmountNext ==
    \/ ~stoppedDuringStart /\ StartCall
    \/ ~stoppedDuringStart /\ startsPending = 0 /\ Stop
    \/ \E f \in ConfigFiles : StartResume(f)
    \/ StopDuringStart
    \/ UnmountDuringStart

UnmountSpec == Init /\ [][UnmountNext]_vars

\* ------------------------------------------------------------------------
\* A second WingmanMonitor started in the same process
\* ------------------------------------------------------------------------
\* the console patches the second monitor creates in its setupErrorHandlers
OtherHandler == -1

\* the second monitor records a console call and, for console.error, evaluates it
otherRecords(o, fn, args) ==
    LET logEntry == [type |-> fn,
                     message |-> [i \in 1..Len(args) |-> LogText(args[i])],
                     timestamp |-> now]
        pushed == Append(o.logs, logEntry)
    IN  [o EXCEPT !.logs = IF Len(pushed) > maxLogs THEN Tail(pushed) ELSE pushed,
                  !.posts = IF fn = "error" /\ LooksLikeError(args) /\ o.config # Null
                            THEN @ + 1 ELSE @]

\* a call of console[fn](...args) with `top` in the slot: each patch calls the function
\* it saved as original, then records for its own monitor
Chain(m, o, top, fn, args) ==
    LET firstRuns == \/ IsMonitorHandler(top)
                     \/ top = OtherHandler /\ IsMonitorHandler(o.orig[fn])
        otherRuns == \/ top = OtherHandler
                     \/ IsMonitorHandler(top) /\ m.orig[fn] = OtherHandler
        patched == [m EXCEPT !.console = [g \in ConsoleFns |-> MonitorHandler(setups)]]
    IN  [first |-> IF firstRuns THEN ConsoleCall(patched, fn, args) ELSE m,
         other |-> IF otherRuns THEN otherRecords(o, fn, args) ELSE o]

\* the longest log buffer explored with two monitors
MaxPeerLogLen == 4

\* the effects of a step on the first monitor's log buffer, POSTs and history
TwoCommit(m) ==
    /\ m.posts <= MaxPosts
    /\ Len(m.logs) <= MaxPeerLogLen
    /\ recentLogs' = m.logs
    /\ posts' = m.posts
    /\ inflight' = [awaited |-> m.awaited, floating |-> m.floating]
    /\ lastReport' = m.last
    /\ raised' = m.threw

\* what these steps leave unchanged besides the two monitors and the console slots
twoFrame == <<runtimeVars, filterCall, envCall, testsPending, storeVars, winCall,
              stoppedDuringStart, config, isStarted, setups, procListeners, winOnerror,
              winOnrejection, originalErrorHandler, originalUnhandledRejectionHandler,
              originalConsole, now, startsPending, preStart>>

\* console calls of the host that serialize
TwoCalls == {[fn |-> "log", args |-> <<StrArg("hello")>>],
             [fn |-> "error", args |-> <<StrArg("an error occurred")>>]}

\* the host calls console[fn](...args)
TwoConsole(fn, args) ==
    /\ triggers < MaxTriggers
    /\ triggers' = IF fn = "error" THEN triggers + 1 ELSE triggers
    /\ LET after == Chain(Mon, other, console[fn], fn, args)
       IN  /\ TwoCommit(after.first)
           /\ Len(after.other.logs) <= MaxPeerLogLen
           /\ other' = after.other
    /\ UNCHANGED <<twoFrame, console>>

\* the second monitor's start() with f in .wingman.json, run to its end, after the
\* first monitor has started
OtherStart(f) ==
    /\ isStarted
    /\ startsPending = 0
    /\ LET cfg == LoadResult(f)
           loaded == IF f = Corrupt
                     THEN Chain(Mon, other, console["error"], "error",
                                <<StrArg("Failed to load Wingman config:"), ErrorArg("read")>>)
                     ELSE [first |-> Mon, other |-> other]
           path == IF cfg = Null THEN "noConfig"
                   ELSE IF ~cfg.enabled THEN "disabled"
                   ELSE IF other.isStarted THEN "already"
                   ELSE "setup"
           o1 == IF path = "setup"
                 THEN [loaded.other EXCEPT !.config = cfg, !.isStarted = TRUE,
                                           !.orig = console, !.listeners = @ + 1]
                 ELSE [loaded.other EXCEPT !.config = cfg]
           top == IF path = "setup" THEN [fn \in ConsoleFns |-> OtherHandler] ELSE console
           said == StartMessage(path)
           after == Chain(loaded.first, o1, top[said.fn], said.fn, <<StrArg(said.text)>>)
       IN  /\ console' = top
           /\ TwoCommit(after.first)
           /\ Len(after.other.logs) <= MaxPeerLogLen
           /\ other' = after.other
    /\ UNCHANGED <<twoFrame, triggers>>

\* the first monitor is constructed in Node.js, in production
TwoInit ==
    /\ Init
    /\ hasProcess
    /\ nodeEnv = "production"

\* the first monitor starts; then the second one does; the host logs at any time
TwoNext ==
    \/ ~isStarted /\ StartCall
    \/ \E f \in ConfigFiles : StartResume(f)
    \/ \E f \in ConfigFiles : OtherStart(f)
    \/ \E call \in TwoCalls : TwoConsole(call.fn, call.args)

TwoSpec == TwoInit /\ [][TwoNext]_vars

\* ------------------------------------------------------------------------
\* The CLI alone, the clock running
\* ------------------------------------------------------------------------
\* the commands of the CLI, edits of the file by hand, and the clock
InitNext ==
    \/ \E response \in WebhookResponses, projectId \in ProjectIds, outcome \in WriteOutcomes :
          CliInit("tok", response, projectId, outcome)
    \/ \E flag \in BOOLEAN, outcome \in WriteOutcomes : CliSetEnabled(flag, outcome)
    \/ \E f \in {NoFile, Corrupt} : EditFile(f)
    \/ Tick

InitSpec == CliInit0 /\ [][InitNext]_vars

\* ------------------------------------------------------------------------
\* The token resolver, in a process whose monitor starts and stops
\* ------------------------------------------------------------------------
\* what can be in .wingman.json when the token is resolved
ResolverFiles == TokenDocs \cup {NoFile, Corrupt}

\* config?.accessToken || null
storedToken(cfg) ==
    IF cfg # Null /\ "accessToken" \in DOMAIN cfg /\ cfg.accessToken # ""
    THEN [value |-> cfg.accessToken]
    ELSE Null

\* getStoredAccessToken(): load() of a new ConfigManager inside try, console.warn in
\* the catch
getStoredAccessToken(m, f) ==
    LET loaded == load(m, f)
    IN  IF loaded.threw
        THEN [mon |-> ConsoleCall([loaded EXCEPT !.threw = FALSE], "warn",
                          <<StrArg("Failed to load Wingman configuration:"),
                            ErrorArg("thrown")>>),
              returned |-> Null]
        ELSE [mon |-> loaded, returned |-> storedToken(LoadResult(f))]

\* requireAccessToken()
requireAccessToken(m, f) ==
    LET got == getStoredAccessToken(m, f)
    IN  IF got.mon.threw THEN got
        ELSE IF got.returned = Null THEN [mon |-> Throw(got.mon), returned |-> Null]
        ELSE got

\* the host calls getStoredAccessToken()
GetStoredAccessToken ==
    /\ LET got == getStoredAccessToken(Mon, configFile)
       IN  /\ storeCall' = [called |-> TRUE, op |-> "getStoredAccessToken",
                            returned |-> got.returned, threw |-> got.mon.threw]
           /\ Commit(got.mon)
    /\ UNCHANGED <<storeFrame, configFile, storeConfig>>

\* the host calls requireAccessToken()
RequireAccessToken ==
    /\ LET got == requireAccessToken(Mon, configFile)
       IN  /\ storeCall' = [called |-> TRUE, op |-> "requireAccessToken",
                            returned |-> got.returned, threw |-> got.mon.threw]
           /\ Commit(got.mon)
    /\ UNCHANGED <<storeFrame, configFile, storeConfig>>

\* the monitor starts and stops on the project's file, the file is rewritten, and
\* the host resolves the token
ResolverNext ==
    \/ StartCall
    \/ StartResumeOnFile
    \/ Stop
    \/ \E f \in ResolverFiles : EditFile(f)
    \/ GetStoredAccessToken
    \/ RequireAccessToken

ResolverSpec == CliInit0 /\ [][ResolverNext]_vars

\* ------------------------------------------------------------------------
\* Steps named by the properties
\* ------------------------------------------------------------------------
\* a POST is issued by the step
PostIssued == posts' > posts

\* the host raises an error on one of the surfaces the monitor hooks
HostErrorEvent(err) ==
    \/ ProcessUncaughtException(err)
    \/ ProcessUnhandledRejection(err)
    \/ WindowError(err)
    \/ WindowUnhandledRejection(err)

\* stop() on a STARTED monitor
EffectiveStop == isStarted /\ ~isStarted'

\* the monitor has been started and stopped, and not started again
StoppedAfterStart == ~isStarted /\ setups > 0

FailedOutcomes == PostOutcomes \ {"ok"}

\* ------------------------------------------------------------------------
\* Properties
\* ------------------------------------------------------------------------
\* C1: a webhook POST is issued only while the monitor is STARTED and the loaded
\* config has enabled = true, on every path to the send path.
C1_PostOnlyWhileActive == [][PostIssued => isActive]_vars

\* C2: after stop() on a STARTED monitor no hook of start() remains in effect: a later
\* process or window error event or console call neither appends to the log buffer
\* nor issues a POST.
C2_StopRemovesHooks ==
    [][(StoppedAfterStart /\ (\/ \E err \in HostErrors : HostErrorEvent(err)
                              \/ \E call \in HostCalls : HostConsole(call.fn, call.args)))
        => (recentLogs' = recentLogs /\ posts' = posts)]_vars

\* C3: start() then stop() is a round trip on the global slots: after stop(),
\* window.onerror, window.onunhandledrejection, the three console functions and the
\* process listeners are what they were immediately before start().
C3_StartStopRoundTrip ==
    [][EffectiveStop =>
        [listeners |-> procListeners', onerror |-> winOnerror',
         onrejection |-> winOnrejection', console |-> console'] = preStart]_vars

\* C4: the monitor is restartable: after start(), stop(), a start() that finds an
\* enabled config completes without raising and leaves the monitor STARTED and active.
C4_Restartable ==
    [][\A f \in ConfigDocs :
        (StoppedAfterStart /\ f.enabled /\ StartResume(f))
        => (~raised' /\ isStarted' /\ isActive')]_vars

\* C5: the number of webhook POSTs issued never exceeds the number of error triggers
\* the host has raised.
C5_OnePostPerTrigger == posts <= triggers

\* C6: the Error Filter gates every internally triggered report: an internal trigger
\* issues a POST only if shouldReportError accepts its error (never in development).
C6_FilterGatesInternalTriggers ==
    [][/\ \A err \in HostErrors :
            (HostErrorEvent(err) /\ PostIssued)
            => shouldReportError(nodeEnv, err.msg, err.status)
       /\ \A call \in HostCalls :
            (HostConsole(call.fn, call.args) /\ PostIssued)
            => shouldReportError(nodeEnv, ConsoleMessage(call.args), "absent")]_vars

\* C7: on a STARTED monitor with an enabled config, reportCustomError sends exactly one
\* report, of errorType customError and severity medium, whatever the error and the
\* environment: the Error Filter is not consulted.
C7_CustomErrorBypassesFilter ==
    [][\A err \in HostErrors :
        (isActive /\ ReportCustomError(err))
        => /\ posts' = posts + 1
           /\ inflight'.awaited = inflight.awaited + 1
           /\ inflight'.floating = inflight.floating
           /\ lastReport'.errorType = "customError"
           /\ lastReport'.severity = "medium"]_vars

\* C7 witness: a customError report is in flight from an active monitor in the
\* development environment, where shouldReportError rejects every error.
C7_Witness ==
    /\ isActive
    /\ nodeEnv = "development"
    /\ \A err \in HostErrors : ~shouldReportError(nodeEnv, err.msg, err.status)
    /\ lastReport # NoReport
    /\ lastReport.errorType = "customError"
    /\ inflight.awaited > 0

\* C8: a failed webhook POST (timeout, network error, non-2xx) is never raised:
\* reportError and reportCustomError complete normally in every state.
C8_DeliveryFailureNotRaised ==
    [][\A kind \in {"awaited", "floating"}, outcome \in FailedOutcomes :
        CompletePost(kind, outcome) => ~raised']_vars

\* C9: every host call of console.log, console.warn or console.error returns normally,
\* for every argument list, also one that cannot be serialized.
C9_ConsoleCallsReturn ==
    [][\A call \in HostCalls : HostConsole(call.fn, call.args) => ~raised']_vars

\* C10: a start() on a STOPPED monitor that finds no config, or a config with enabled
\* false, leaves the monitor STOPPED, installs no hook on any surface and does not raise.
C10_StartWithoutConfig ==
    [][\A f \in ConfigFiles :
        (~isStarted /\ (f \notin ConfigDocs \/ ~f.enabled) /\ StartResume(f))
        => (~isStarted' /\ UNCHANGED slotVars /\ ~raised')]_vars

\* C11: start() on a STARTED monitor is a no-op: the lifecycle state, the installed
\* hooks, the loaded config and isActive() are the same after the call as before it,
\* whatever .wingman.json holds when the call reads it.
C11_StartWhenStartedIsNoOp ==
    [][\A f \in ConfigFiles :
        (isStarted /\ StartResume(f))
        => (isStarted' /\ UNCHANGED slotVars /\ config' = config
            /\ isActive' = isActive)]_vars

\* C12: stop() on a monitor that is not STARTED raises nothing, removes no handler and
\* leaves the lifecycle state, the loaded config, the log buffer and every global
\* handler slot unchanged.
C12_StopWhenStoppedIsNoOp ==
    [][(~isStarted /\ Stop)
        => (~raised' /\ UNCHANGED <<isStarted, config, recentLogs, slotVars>>)]_vars

\* C12 witness: a STOPPED monitor that an earlier start() and stop() left with a loaded
\* config, a patched console and a non-empty log buffer; a stop() here has all of them
\* to leave alone, and has raised nothing.
C12_Witness ==
    /\ ~isStarted
    /\ setups > 0
    /\ config # Null
    /\ IsMonitorHandler(console["log"])
    /\ recentLogs # <<>>
    /\ ~raised

\* C13: isActive() is true iff the monitor is STARTED and the loaded config has
\* enabled = true: false before any start(), false after a start() that loaded a
\* config with enabled = false, true after a start() that completed with an enabled
\* config, false after stop().
C13_IsActive ==
    /\ [](isActive <=> (isStarted /\ config # Null /\ config.enabled))
    /\ [](setups = 0 => ~isActive)
    /\ [][/\ \A f \in ConfigDocs : (~f.enabled /\ StartResume(f)) => ~isActive'
          /\ \A f \in ConfigDocs : (f.enabled /\ StartResume(f) /\ ~raised') => isActive'
          /\ Stop => ~isActive']_vars

\* C13 witness: a STARTED monitor whose second start() loaded a config with
\* enabled = false: the lifecycle state alone would say active.
C13_Witness ==
    /\ isStarted
    /\ config # Null
    /\ ~config.enabled
    /\ ~isActive

\* C14: the log buffer never holds more than 50 entries, and eviction is strict FIFO:
\* after n inserts it holds exactly the newest min(n, 50) of them in insertion order,
\* so for n > 50 the oldest n - 50 are absent.  In BufferSpec the k-th insert is made
\* at time k - 1, so the timestamp names the insert and `now` counts the inserts.
C14_RingBufferFifo ==
    LET n == now
        kept == IF n > maxLogs THEN maxLogs ELSE n
    IN  /\ Len(recentLogs) <= maxLogs
        /\ Len(recentLogs) = kept
        /\ \A i \in 1..Len(recentLogs) :
              /\ recentLogs[i].timestamp = n - kept + i - 1
              /\ recentLogs[i].type = "log"
              /\ recentLogs[i].message = IF recentLogs[i].timestamp = 0
                                          THEN <<"Wingman: Monitoring started">>
                                          ELSE <<"hello">>

\* C14 witness: 52 inserts were made; the buffer holds the 50 made at times 2..51.
C14_Witness ==
    /\ now = maxLogs + 2
    /\ Len(recentLogs) = maxLogs
    /\ recentLogs[1].timestamp = 2
    /\ recentLogs[maxLogs].timestamp = maxLogs + 1

\* the window lengths and the window ends the window properties range over: around
\* every buffered timestamp, and a window length after it
Windows == {0, 1, windowMs}
Stamps == {recentLogs[i].timestamp : i \in 1..Len(recentLogs)}
WindowEnds == {0} \cup {ts + d : ts \in Stamps, d \in {-1, 0, 1}}
                  \cup {ts + w + d : ts \in Stamps, w \in Windows, d \in {0, 1}}

\* the buffered entries whose timestamp lies in [t - w, t]
Inside(t, w) == {i \in 1..Len(recentLogs) :
                    t - w <= recentLogs[i].timestamp /\ recentLogs[i].timestamp <= t}

\* C15: getRelevantLogs(t, w) returns exactly the buffered entries whose timestamp lies
\* in the closed interval [t - w, t], and the empty string when there is none.
C15_WindowIsClosedInterval ==
    \A t \in WindowEnds, w \in Windows :
        LET text == getRelevantLogs(recentLogs, t, w)
            inside == Inside(t, w)
        IN  /\ (inside = {}) <=> (text = <<>>)
            /\ inside # {} =>
                /\ text[1] = LogHeader
                /\ Len(text) = 1 + Cardinality(inside)
                /\ \A i \in inside : \E j \in 2..Len(text) : text[j] = LogLine(recentLogs[i])
                /\ \A j \in 2..Len(text) : \E i \in inside : text[j] = LogLine(recentLogs[i])

\* C15 witness: for some t and w > 0 the buffer holds an entry at t - w - 1, at t - w,
\* at t and at t + 1, and the text for (t, w) has the two inner ones only.
C15_Witness ==
    \E t \in WindowEnds, w \in Windows \ {0} :
        /\ {t - w - 1, t - w, t, t + 1} \subseteq Stamps
        /\ Cardinality(Inside(t, w)) = 2
        /\ Len(getRelevantLogs(recentLogs, t, w)) = 3

\* C16: the log entries in a report's message appear oldest first: each buffered entry
\* in the window stands at the place its rank in the recording order gives it, after
\* the primary message and the header.
C16_EnrichmentOldestFirst ==
    [][\A tick \in ClockReads :
        ReportCustomErrorNow([msg |-> <<"boom">>, status |-> "absent"], tick) =>
        LET inside == Inside(now + tick, windowMs)
            rank(i) == Cardinality({k \in inside : k <= i})
            message == lastReport'.message
        IN  /\ \A i \in inside : message[2 + rank(i)] = LogLine(recentLogs[i])
            /\ \A i, k \in inside :
                  i < k => recentLogs[i].timestamp <= recentLogs[k].timestamp]_vars

\* C16 witness: a report was sent whose message lists two entries recorded at
\* different times, and an older entry had already left the window.
C16_Witness ==
    /\ lastReport # NoReport
    /\ "message" \in DOMAIN lastReport
    /\ Len(lastReport.message) >= 5
    /\ lastReport.message[2] = LogHeader
    /\ "time" \in DOMAIN lastReport.message[4]
    /\ lastReport.message[3].time # lastReport.message[4].time
    /\ lastReport.message[3] # LogLine(recentLogs[1])

\* C17: with NODE_ENV = development, shouldReportError returns false for every error
\* message and every context.
C17_DevelopmentNeverReports ==
    (filterCall.called /\ nodeEnv = "development") => ~filterCall.result

\* C17 witness: in development the filter was asked about an error that no other rule
\* rejects, and said no.
C17_Witness ==
    /\ filterCall.called
    /\ nodeEnv = "development"
    /\ filterCall.msg = <<"boom">>
    /\ filterCall.status = "absent"
    /\ ~filterCall.result

\* C18 as stated: outside development, shouldReportError returns false exactly when the
\* message contains the extension URL marker, or it contains the failed-fetch marker
\* and context.status is 0, or it equals the script-error marker; a message that has
\* the script-error marker inside longer text is reported.
C18_ScriptErrorByEquality ==
    (filterCall.called /\ nodeEnv # "development") =>
        (~filterCall.result <=>
            \/ MsgIncludes(filterCall.msg, "chrome-extension://")
            \/ MsgIncludes(filterCall.msg, "Failed to fetch") /\ filterCall.status = "0"
            \/ filterCall.msg = <<"Script error">>)

\* C18 amended: outside development, shouldReportError returns false exactly when the
\* message contains the extension URL marker, or it contains the failed-fetch marker
\* and context.status is 0, or it contains the script-error marker; in every other
\* case, a failed fetch with another or no status included, it returns true.
C18_ScriptErrorByContainment ==
    (filterCall.called /\ nodeEnv # "development") =>
        (~filterCall.result <=>
            \/ MsgIncludes(filterCall.msg, "chrome-extension://")
            \/ MsgIncludes(filterCall.msg, "Failed to fetch") /\ filterCall.status = "0"
            \/ MsgIncludes(filterCall.msg, "Script error"))

\* C18 witness: outside development the filter rejected a message that has the
\* script-error marker inside longer text.
C18_Witness ==
    /\ filterCall.called
    /\ nodeEnv = "production"
    /\ filterCall.msg = <<"Script error in page">>
    /\ ~filterCall.result

\* C19: every report sent carries, in its body and in its bearer Authorization header,
\* the accessToken of the config that is loaded when the report is built; an empty
\* accessToken is sent only when that config has an empty accessToken or none.
C19_TokenMirrorsConfig ==
    [][PostIssued =>
        LET sent == Envelope(lastReport')
        IN  /\ config # Null
            /\ "accessToken" \in DOMAIN config => sent.body.data.accessToken = config.accessToken
            /\ sent.authorization = <<"Bearer", sent.body.data.accessToken>>
            /\ sent.body.data.accessToken = ""
                 => ("accessToken" \notin DOMAIN config \/ config.accessToken = "")]_vars

\* C19 witness: two reports were sent by a STARTED monitor whose loaded config has the
\* token tok2, and the latest carries that token.
C19_Witness ==
    /\ posts = 2
    /\ config # Null
    /\ "accessToken" \in DOMAIN config
    /\ config.accessToken = "tok2"
    /\ lastReport.accessToken = "tok2"
    /\ isStarted

\* the (errorType, severity) pairs of the six triggers
TriggerPairs == {<<"uncaughtException", "critical">>, <<"unhandledRejection", "high">>,
                 <<"windowError", "medium">>, <<"windowUnhandledRejection", "high">>,
                 <<"consoleError", "low">>, <<"customError", "medium">>}

\* C20: every report sent carries the (errorType, severity) pair of one of the six
\* triggers; no report with another pair is sent through a public operation of the
\* monitor.
C20_OnlyTriggerPairs ==
    [][PostIssued => <<lastReport'.errorType, lastReport'.severity>> \in TriggerPairs]_vars

\* C21: ConfigManager.load() never throws to its caller: it returns the parsed config,
\* or null when the file is absent or cannot be read or parsed.  Stated for the load()
\* that start() awaits.
C21_LoadNeverThrows ==
    [][\A f \in ConfigFiles : StartResume(f) => ~load(Mon, f).threw]_vars

\* C27: while the monitor is STARTED, after a first start and after any stop/start
\* cycle, each host call of console.log, console.warn or console.error reaches the
\* host's own console function and appends exactly one entry of the matching kind to
\* the log buffer.
C27_ConsolePassThrough ==
    [][\A call \in HostCalls :
        (isStarted /\ HostConsole(call.fn, call.args))
        => /\ originalConsole[call.fn] = HostHandler
           /\ Len(recentLogs') = Len(recentLogs) + 1
           /\ recentLogs'[Len(recentLogs')].type = call.fn]_vars

\* C28: handler chaining terminates: in every reachable state no installed hook of the
\* monitor has a hook of the same monitor as the handler it chains to, so a call of a
\* patched console function or of an installed window hook reaches the host's handler.
C28_NoSelfChaining ==
    /\ \A fn \in ConsoleFns :
          IsMonitorHandler(console[fn]) => ~IsMonitorHandler(originalConsole[fn])
    /\ IsMonitorHandler(winOnerror) => ~IsMonitorHandler(originalErrorHandler)
    /\ IsMonitorHandler(winOnrejection)
          => ~IsMonitorHandler(originalUnhandledRejectionHandler)

\* C30: on a STARTED monitor a console.error call produces a consoleError report iff
\* one of its string arguments contains 'error' (in any case) or one of its arguments
\* is an Error instance; console.warn and console.log calls never produce a report.
C30_ConsoleErrorHeuristic ==
    [][\A call \in HostCalls :
        (isStarted /\ HostConsole(call.fn, call.args))
        => ((posts' > posts /\ lastReport'.errorType = "consoleError")
            <=> (/\ call.fn = "error"
                 /\ \E i \in 1..Len(call.args) :
                       \/ call.args[i].kind = "Error"
                       \/ call.args[i].kind = "string"
                          /\ Includes(call.args[i].text, "error")))]_vars

\* new is old overridden field by field by partial
Overridden(old, partial, new) ==
    /\ DOMAIN new = DOMAIN old \cup DOMAIN partial
    /\ \A k \in DOMAIN partial : new[k] = partial[k]
    /\ \A k \in DOMAIN old \ DOMAIN partial : new[k] = old[k]

\* save(partial) with no config in memory: nothing written, memory still null,
\* nothing logged, nothing raised
SaveIsSilentNoOp ==
    /\ configFile' = configFile
    /\ storeConfig' = Null
    /\ ~storeCall'.wrote
    /\ ~storeCall'.logged
    /\ ~storeCall'.threw

C23_IsEnabled ==
    (storeCall.called /\ storeCall.op = "isEnabled")
    => /\ storeCall.result
          <=> \E d \in {storeConfig} :
                 d # Null /\ "enabled" \in DOMAIN d /\ d.enabled = TRUE
       /\ storeConfig = Null => ~storeCall.result
       /\ (storeConfig # Null /\ "enabled" \notin DOMAIN storeConfig) => ~storeCall.result

\* isEnabled() has answered false for a loaded config that has no enabled field
C23_Witness ==
    /\ storeCall.called
    /\ storeCall.op = "isEnabled"
    /\ storeConfig # Null
    /\ "enabled" \notin DOMAIN storeConfig
    /\ ~storeCall.result

\* C24: initialize(cfg) sets the in-memory config to cfg with enabled forced to
\* true (also when cfg.enabled is false) and createdAt set to the time of the
\* call, and writes nothing: the file is as before, so a load() by another
\* ConfigManager on the same path returns what it returned before.
C24_InitializeInMemoryOnly ==
    [][\A cfg \in StoreCfgs :
        StoreInitialize(cfg)
        => /\ DOMAIN storeConfig' = DOMAIN cfg \cup {"enabled", "createdAt"}
           /\ storeConfig'.enabled = TRUE
           /\ storeConfig'.createdAt = toISOString(now)
           /\ \A k \in DOMAIN cfg \ {"enabled", "createdAt"} : storeConfig'[k] = cfg[k]
           /\ configFile' = configFile
           /\ LoadResult(configFile') = LoadResult(configFile)]_vars

\* initialize was called a millisecond after the epoch with a disabled config
\* that carried an older createdAt, while the file held a disabled document
C24_Witness ==
    /\ storeCall.called
    /\ storeCall.op = "initialize"
    /\ "enabled" \in DOMAIN storeCall.cfg
    /\ ~storeCall.cfg.enabled
    /\ "createdAt" \in DOMAIN storeCall.cfg
    /\ storeConfig.enabled
    /\ storeConfig.createdAt = toISOString(1)
    /\ configFile \in ConfigDocs
    /\ ~configFile.enabled

\* the latest CLI command was `cmd` and it rewrote .wingman.json
CliWrote(cmd) == cliCall.called /\ cliCall.cmd = cmd /\ cliCall.outcome = "written"

\* C25: the enabled flag the CLI wrote decides whether a monitor started
\* afterwards becomes active: a start() of a STOPPED monitor after `wingman
\* disable` leaves it STOPPED with isActive() false; a start() after `wingman
\* enable`, the file still in place, makes it STARTED with isActive() true;
\* enable and disable in a project without .wingman.json create no file.
C25_CliFlagDecidesStart ==
    [][/\ (StartResumeOnFile /\ CliWrote("disable") /\ ~isStarted)
          => (~isStarted' /\ ~isActive')
       /\ (StartResumeOnFile /\ CliWrote("enable") /\ configFile \notin {NoFile, Corrupt})
          => (isStarted' /\ isActive')
       /\ \A flag \in BOOLEAN, outcome \in WriteOutcomes :
             (CliSetEnabled(flag, outcome) /\ configFile = NoFile)
             => configFile' = NoFile]_vars

\* `wingman enable` rewrote a file that a `wingman disable` had disabled, and
\* the start() after it has made the monitor STARTED and active on that document
C25_Witness ==
    /\ CliWrote("enable")
    /\ ~cliCall.read.enabled
    /\ startsPending = 0
    /\ isStarted
    /\ isActive
    /\ config = configFile

\* C26: getEnvironmentConfig() enables error reporting and performance monitoring
\* in production and nowhere else, debug logs in development and nowhere else,
\* so never reporting and debug logs together, and the apiEndpoint it returns in
\* production differs from the one it returns in every other environment.
C26_EnvironmentConfig ==
    envCall.called
    => LET c == envCall.result
       IN  /\ c.enableErrorReporting <=> nodeEnv = "production"
           /\ c.enablePerformanceMonitoring <=> nodeEnv = "production"
           /\ c.enableDebugLogs <=> nodeEnv = "development"
           /\ ~(c.enableErrorReporting /\ c.enableDebugLogs)
           /\ \A e \in FilterEnvs :
                 ((e = "production") # (nodeEnv = "production"))
                 => getEnvironmentConfig(e).apiEndpoint # c.apiEndpoint

\* the function was called with NODE_ENV neither production nor development:
\* nothing is enabled and the endpoint is the local one
C26_Witness ==
    /\ envCall.called
    /\ nodeEnv = "test"
    /\ ~envCall.result.enableErrorReporting
    /\ ~envCall.result.enablePerformanceMonitoring
    /\ ~envCall.result.enableDebugLogs
    /\ envCall.result.apiEndpoint = "http://localhost:3001"

\* C29: the log window of a report ends at the report's own timestamp: the
\* entries in the message are exactly the buffered entries with a timestamp in
\* [r.timestamp - 5000, r.timestamp], r.timestamp being the timestamp field of
\* that report, also when the clock advances between the two reads.
C29_WindowEndsAtReportTimestamp ==
    [][\A tick \in ClockReads :
        ReportCustomErrorNow([msg |-> <<"boom">>, status |-> "absent"], tick) =>
        LET r == lastReport'
            inside == Inside(r.timestamp, windowMs)
            lines == {j \in 1..Len(r.message) : "time" \in DOMAIN r.message[j]}
        IN  /\ Cardinality(lines) = Cardinality(inside)
            /\ \A i \in inside : \E j \in lines : r.message[j] = LogLine(recentLogs[i])]_vars

\* the host had its own window.onerror when the monitor last installed its hook
HostHadOnerror == "onerror" \in DOMAIN preStart /\ preStart.onerror = HostHandler

\* C31: the installed window.onerror hook calls the handler the host had installed
\* exactly once per error event, after it has built and handed over the report, and
\* returns what that handler returns; when the host had none it returns true.
C31_OnerrorForwardsReturn ==
    [][\A err \in HostErrors, ret \in HostReturns :
        (isStarted /\ WindowErrorCall(err, ret))
        => LET outcome == winCall'.outcome
           IN  /\ ~outcome.threw
               /\ IF HostHadOnerror
                  THEN /\ outcome.ran = <<"reportError", "host">>
                       /\ outcome.returned = ret
                  ELSE /\ outcome.ran = <<"reportError">>
                       /\ outcome.returned = "true"]_vars

\* a step in which a trigger other than console.error, or reportCustomError, builds
\* a report
BuildsReport == \E err \in HostErrors : HostErrorEvent(err) \/ ReportCustomError(err)

\* a call of start() runs to its end
StartRuns == \E f \in ConfigFiles : StartResume(f)

\* the texts the monitor and its ConfigManager write to the console
MonitorTexts == {<<"Wingman: Monitoring started">>, <<"Wingman: Monitoring stopped">>,
                 <<"Wingman: No configuration found.">>, <<"Wingman: Monitoring is disabled.">>,
                 <<"Wingman: Already started.">>,
                 <<"Failed to load Wingman config:", "{}">>,
                 <<"Wingman: Failed to start monitoring:", "{}">>}

\* the step keeps every buffered entry in place and appends entries of the monitor's
\* own console messages only
AppendsOwnMessages ==
    /\ Len(recentLogs') >= Len(recentLogs)
    /\ SubSeq(recentLogs', 1, Len(recentLogs)) = recentLogs
    /\ \A i \in (Len(recentLogs) + 1)..Len(recentLogs') :
          recentLogs'[i].message \in MonitorTexts

C33_RacingStartsInstallOnce ==
    [][\A f \in ConfigFiles :
        StartResume(f)
        => /\ setups' <= 1
           /\ procListeners' = (IF hasProcess THEN setups' ELSE 0)
           /\ isStarted' <=> setups' = 1
           /\ (f \in ConfigDocs /\ f.enabled) => isStarted'
           /\ setups' > setups => (~isStarted /\ isStarted')]_vars

\* two start() calls have run to their end: the first installed the hooks, the
\* second found the monitor STARTED and warned, and a third is still suspended
C33_Witness ==
    /\ startsPending = 1
    /\ isStarted
    /\ setups = 1
    /\ Len(recentLogs) = 2
    /\ recentLogs[1].message = <<"Wingman: Monitoring started">>
    /\ recentLogs[2].message = <<"Wingman: Already started.">>

\* a hook of the monitor is installed in one of the global slots
HooksInstalled ==
    \/ procListeners > 0
    \/ IsMonitorHandler(winOnerror)
    \/ IsMonitorHandler(winOnrejection)
    \/ \E fn \in ConsoleFns : IsMonitorHandler(console[fn])

\* C34: a stop() issued after start() was invoked wins: when stop(), or the
\* provider's unmount, ran while start() was suspended at its config load, then
\* once both have completed the monitor is STOPPED and no hook is installed.
C34_StopAfterStartWins ==
    (stoppedDuringStart /\ startsPending = 0) => (~isStarted /\ ~HooksInstalled)

\* C35: with two monitors STARTED in one process the console overrides follow
\* last-writer-wins: a console call of the host is recorded and evaluated by the
\* monitor started last only, and one console.error call yields at most one report.
C35_LastStartedMonitorOnly ==
    [][\A call \in TwoCalls :
        (isStarted /\ other.isStarted /\ TwoConsole(call.fn, call.args))
        => /\ recentLogs' = recentLogs
           /\ posts' = posts
           /\ (posts' - posts) + (other'.posts - other.posts) <= 1]_vars

\* C36: the value load() returns equals the config in memory afterwards: whenever
\* load() has returned null, getConfig() is null and isEnabled() is false, also when
\* an earlier initialize() or load() had set a config.
C36_NullLoadClearsConfig ==
    (storeCall.called /\ storeCall.op = "load" /\ storeCall.result = Null)
    => (storeConfig = Null /\ ~isEnabled(storeConfig))

\* C37: save(partial) never throws, and when persisting fails the config in memory is
\* left as it was before the call.
C37_FailedSaveKeepsConfig ==
    [][\A partial \in StorePartials, outcome \in WriteOutcomes :
        StoreSave(partial, outcome)
        => /\ ~storeCall'.threw
           /\ outcome # "ok" => storeConfig' = storeConfig]_vars

\* C38: `wingman init` writes .wingman.json only after the webhook test returned 2xx;
\* when the test fails (connection refused, 401, 404, 5xx, timeout) the command exits
\* with a failure status and the file is neither created nor modified.
C38_InitWritesOnlyAfter2xx ==
    [][\A response \in WebhookResponses, projectId \in ProjectIds, outcome \in WriteOutcomes :
        CliInit("tok", response, projectId, outcome)
        => /\ response # "2xx" => (configFile' = configFile /\ cliCall'.exit = 1)
           /\ cliCall'.outcome = "written" => response = "2xx"]_vars

\* a webhook test has failed in a project that had been initialized: its file is there
C38_Witness ==
    /\ cliCall.called
    /\ cliCall.cmd = "init"
    /\ cliCall.outcome = "webhookFailed"
    /\ configFile \notin {NoFile, Corrupt}

\* C39: requireAccessToken() throws if and only if no non-empty access token is
\* stored (file absent, unreadable, unparsable, accessToken empty or missing) and
\* otherwise returns the stored token; getStoredAccessToken() never throws and returns
\* null in exactly those cases.
C39_TokenResolver ==
    [][/\ RequireAccessToken
          => /\ storeCall'.threw <=> storedToken(LoadResult(configFile)) = Null
             /\ ~storeCall'.threw => storeCall'.returned = [value |-> configFile.accessToken]
       /\ GetStoredAccessToken
          => /\ ~storeCall'.threw
             /\ storeCall'.returned = storedToken(LoadResult(configFile))]_vars

====
